---- MODULE Spec2Model ----
(***************************************************************************)
(* A model of the youtube_downloader package: the DownloadConfig ->        *)
(* yt-dlp option mapping, the logger and progress-hook adapters, and the   *)
(* synchronous download() call of YouTubeDownloadService, with yt-dlp      *)
(* itself as a nondeterministic environment (it may log, report progress,  *)
(* return any metadata value or raise).                                    *)
(***************************************************************************)
EXTENDS Integers, Sequences, FiniteSets, TLC

VARIABLES
    default_output_dir, \* YouTubeDownloadService._default_output_dir
    default_proxy,      \* YouTubeDownloadService._default_proxy
    fs,                 \* the directories that exist on disk
    pc,                 \* where the current call stands
    kwargs,             \* the keyword arguments the config was constructed from
    config,             \* the DownloadConfig of the call
    on_progress,        \* the registered progress callback, or None
    on_log,             \* the registered log callback, or None
    output_dir,         \* download(): local output_dir
    ydl_opts,           \* the option map handed to yt_dlp.YoutubeDL
    info,               \* download(): local info
    filepaths,          \* download(): local filepaths
    errors,             \* download(): local errors
    exc,                \* the exception in flight / caught (its str()), or NoExc
    lib_raised,         \* whether a call into yt-dlp ended by raising
    result,             \* the DownloadResult returned, or NoResult
    lib_calls,          \* the calls yt-dlp made on the adapters, in order
    trace               \* the observable effects, in order: process-logger
                        \* records and callback deliveries

vars == <<default_output_dir, default_proxy, fs, pc, kwargs, config, on_progress,
          on_log, output_dir, ydl_opts, info, filepaths, errors, exc, lib_raised,
          result, lib_calls, trace>>

---------------------------------------------------------------------------
(* Python values, tagged by type, and the two idioms the code uses on them *)

PyNone == [t |-> "NoneType"]
PyStr(s) == [t |-> "str", v |-> s]
PyInt(n) == [t |-> "int", v |-> n]
PyBool(b) == [t |-> "bool", v |-> b]
PyList(s) == [t |-> "list", v |-> s]
PyDict(d) == [t |-> "dict", v |-> d]
PyFunc(name) == [t |-> "function", v |-> name]

EmptyDict == [k \in {} |-> PyNone]

\* bool(x): None, "", 0, False, [] and {} are falsy, everything else truthy
Truthy(x) ==
    CASE x.t = "NoneType" -> FALSE
      [] x.t = "str" -> x.v # ""
      [] x.t = "int" -> x.v # 0
      [] x.t = "bool" -> x.v
      [] x.t = "list" -> x.v # <<>>
      [] x.t = "dict" -> DOMAIN x.v # {}
      [] OTHER -> TRUE

\* a or b
PyOr(a, b) == IF Truthy(a) THEN a ELSE b

\* d.get(k): the value at k, None when the key is missing
Get(d, k) == IF k \in DOMAIN d THEN d[k] ELSE PyNone

\* d.setdefault(k, x), as the resulting dict
SetDefault(d, k, x) ==
    [j \in DOMAIN d \cup {k} |-> IF j \in DOMAIN d THEN d[j] ELSE x]

\* d[k] = x, as the resulting dict
SetItem(d, k, x) == [j \in DOMAIN d \cup {k} |-> IF j = k THEN x ELSE d[j]]

\* a faulty variant of dict.update: the keys already present keep their values
UpdateKeepingOld(d, e) ==
    [k \in DOMAIN d \cup DOMAIN e |-> IF k \in DOMAIN d THEN d[k] ELSE e[k]]

\* d.update(e), as the resulting dict
Update(d, e) ==
    [k \in DOMAIN d \cup DOMAIN e |-> IF k \in DOMAIN e THEN e[k] ELSE d[k]]

\* os.path.join of a directory and a relative name
PathJoin(dir, name) == dir \o "/" \o name

---------------------------------------------------------------------------
(* models/__init__.py *)

DownloadConfigDefaults ==
    [output_dir |-> PyStr("downloads"),
     filename_template |-> PyStr("%(title)s.%(ext)s"),
     format |-> PyStr("best"),
     audio_only |-> PyBool(FALSE),
     playlist_items |-> PyNone,
     timeout |-> PyNone,
     retries |-> PyInt(3),
     proxy |-> PyNone,
     extra_yt_dlp_options |-> PyDict(EmptyDict)]

\* DownloadConfig(url=url, **kw): the dataclass constructor
DownloadConfig(url, kw) ==
    [f \in DOMAIN DownloadConfigDefaults \cup {"url"} |->
        IF f = "url" THEN PyStr(url)
        ELSE IF f \in DOMAIN kw THEN kw[f]
        ELSE DownloadConfigDefaults[f]]

LogEvent(level, message) == [level |-> level, message |-> message, context |-> PyNone]

ProgressEvent(status, downloaded_bytes, total_bytes, speed, eta, filename, raw) ==
    [status |-> status, downloaded_bytes |-> downloaded_bytes,
     total_bytes |-> total_bytes, speed |-> speed, eta |-> eta,
     filename |-> filename, raw |-> raw]

DownloadResult(success, paths, inf, errs) ==
    [success |-> success, filepaths |-> paths, info |-> inf, errors |-> errs]

---------------------------------------------------------------------------
(* service.py: _build_yt_dlp_options *)

\* the _YtDlpLogger(self._logger, on_log) object
YtDlpLogger(cb) == [t |-> "_YtDlpLogger", v |-> cb]

\* the closure _make_progress_hook(on_progress) returns
_make_progress_hook(cb) == [t |-> "_hook", v |-> cb]

\* a faulty variant of NoPlaylist: "not config.playlist_items" instead of "is None"
NoPlaylistByTruth(cfg) == PyBool(~Truthy(cfg.playlist_items))

\* "noplaylist": config.playlist_items is None
NoPlaylist(cfg) == PyBool(cfg.playlist_items = PyNone)

\* the dict literal the function starts from
BaseOptions(cfg, out_dir, progress_cb, log_cb) ==
    [outtmpl |-> PyStr(PathJoin(out_dir, cfg.filename_template.v)),
     format |-> cfg.format,
     noplaylist |-> NoPlaylist(cfg),
     logger |-> YtDlpLogger(log_cb),
     progress_hooks |->
        PyList(IF Truthy(progress_cb) THEN <<_make_progress_hook(progress_cb)>> ELSE <<>>),
     retries |-> cfg.retries]

WithProxy(opts, cfg, dflt_proxy) ==
    LET effective_proxy == PyOr(cfg.proxy, dflt_proxy)
    IN IF Truthy(effective_proxy) THEN SetItem(opts, "proxy", effective_proxy) ELSE opts

WithTimeout(opts, cfg) ==
    IF cfg.timeout # PyNone THEN SetItem(opts, "socket_timeout", cfg.timeout) ELSE opts

WithPlaylistItems(opts, cfg) ==
    IF cfg.playlist_items # PyNone
    THEN SetItem(opts, "playlist_items", cfg.playlist_items)
    ELSE opts

FFmpegExtractAudio ==
    [key |-> "FFmpegExtractAudio", preferredcodec |-> "mp3", preferredquality |-> "192"]

WithAudioOnly(opts, cfg) ==
    IF Truthy(cfg.audio_only)
    THEN LET o1 == SetDefault(opts, "format", PyStr("bestaudio/best"))
             o2 == SetDefault(o1, "postprocessors", PyList(<<>>))
         IN SetItem(o2, "postprocessors",
                    PyList(Append(o2.postprocessors.v, FFmpegExtractAudio)))
    ELSE opts

\* the option map before the extra options are merged in
DerivedOptions(cfg, out_dir, progress_cb, log_cb, dflt_proxy) ==
    WithAudioOnly(
        WithPlaylistItems(
            WithTimeout(
                WithProxy(BaseOptions(cfg, out_dir, progress_cb, log_cb), cfg, dflt_proxy),
                cfg),
            cfg),
        cfg)

_build_yt_dlp_options(cfg, out_dir, progress_cb, log_cb, dflt_proxy) ==
    Update(DerivedOptions(cfg, out_dir, progress_cb, log_cb, dflt_proxy),
           cfg.extra_yt_dlp_options.v)

---------------------------------------------------------------------------
(* service.py: _YtDlpLogger *)

\* a record written to the process logger (self._logger.<level>(msg))
LoggerRecord(level, msg) == [kind |-> "logger", level |-> level, message |-> msg]

\* a LogEvent handed to the on_log callback
LogDelivery(event) == [kind |-> "on_log", event |-> event]

\* a ProgressEvent handed to the on_progress callback
ProgressDelivery(event) == [kind |-> "on_progress", event |-> event]

\* a faulty variant of emit: debug lines are filtered out
_emit_filtering(tr, cb, level, msg) ==
    IF cb # PyNone /\ level # "debug" THEN Append(tr, LogDelivery(LogEvent(level, msg))) ELSE tr

\* _YtDlpLogger._emit
_emit(tr, cb, level, msg) ==
    IF cb # PyNone THEN Append(tr, LogDelivery(LogEvent(level, msg))) ELSE tr

\* _YtDlpLogger.debug / info / warning / error
debug(tr, cb, msg) == _emit(Append(tr, LoggerRecord("debug", msg)), cb, "debug", msg)
info_(tr, cb, msg) == _emit(Append(tr, LoggerRecord("info", msg)), cb, "info", msg)
warning(tr, cb, msg) == _emit(Append(tr, LoggerRecord("warning", msg)), cb, "warning", msg)
error(tr, cb, msg) == _emit(Append(tr, LoggerRecord("error", msg)), cb, "error", msg)

\* the adapter method yt-dlp calls, by name
LoggerMethod(method, tr, cb, msg) ==
    CASE method = "debug" -> debug(tr, cb, msg)
      [] method = "info" -> info_(tr, cb, msg)
      [] method = "warning" -> warning(tr, cb, msg)
      [] method = "error" -> error(tr, cb, msg)

---------------------------------------------------------------------------
(* service.py: _make_progress_hook._hook *)

event_status(status) ==
    LET raw_status == Get(status, "status")
    IN IF raw_status = PyStr("downloading") THEN "downloading"
       ELSE IF raw_status = PyStr("finished") THEN "finished"
       ELSE "error"

\* status.get("total_bytes") or status.get("total_bytes_estimate")
event_total_bytes(status) ==
    PyOr(Get(status, "total_bytes"), Get(status, "total_bytes_estimate"))

\* status.get("filename") or status.get("info_dict", {}).get("filename")
event_filename(status) ==
    PyOr(Get(status, "filename"),
         Get(IF "info_dict" \in DOMAIN status THEN status.info_dict.v ELSE EmptyDict,
             "filename"))

_hook(tr, cb, status) ==
    IF cb = PyNone
    THEN tr
    ELSE Append(tr, ProgressDelivery(
            ProgressEvent(event_status(status),
                          Get(status, "downloaded_bytes"),
                          event_total_bytes(status),
                          Get(status, "speed"),
                          Get(status, "eta"),
                          event_filename(status),
                          status)))

---------------------------------------------------------------------------
(* service.py: download(), the collection of the produced file paths *)

NoExc == "<no exception>"
NoResult == PyNone

\* str() of the exceptions the collection itself can raise
NoneNotIterableArg == "argument of type 'NoneType' is not iterable"
NoneNotIterable == "'NoneType' object is not iterable"
StrHasNoGet == "'str' object has no attribute 'get'"

\* a faulty variant of CollectLoop: a path is inserted at the front of the list
RECURSIVE CollectLoopPrepending(_, _, _)
CollectLoopPrepending(items, i, acc) ==
    IF i > Len(items) THEN [paths |-> acc, exc |-> NoExc]
    ELSE IF items[i].t # "dict" THEN [paths |-> acc, exc |-> StrHasNoGet]
    ELSE LET path == Get(items[i].v, "_filename")
         IN CollectLoopPrepending(items, i + 1, IF Truthy(path) THEN <<path>> \o acc ELSE acc)

\* for item in info.get("requested_downloads", []): ... filepaths.append(path)
RECURSIVE CollectLoop(_, _, _)
CollectLoop(items, i, acc) ==
    IF i > Len(items) THEN [paths |-> acc, exc |-> NoExc]
    ELSE IF items[i].t # "dict" THEN [paths |-> acc, exc |-> StrHasNoGet]
    ELSE LET path == Get(items[i].v, "_filename")
         IN CollectLoop(items, i + 1, IF Truthy(path) THEN Append(acc, path) ELSE acc)

\* the body of the with block after extract_info returned inf: the paths
\* appended to filepaths and the exception raised on the way, if any
Collect(inf) ==
    CASE inf.t = "NoneType" -> [paths |-> <<>>, exc |-> NoneNotIterableArg]
      [] inf.t = "list" -> [paths |-> <<>>, exc |-> NoExc]
      [] inf.t = "dict" ->
            IF "_filename" \in DOMAIN inf.v
            THEN [paths |-> <<inf.v["_filename"]>>, exc |-> NoExc]
            ELSE IF "requested_downloads" \in DOMAIN inf.v
            THEN LET items == inf.v["requested_downloads"]
                 IN IF items.t = "list" THEN CollectLoop(items.v, 1, <<>>)
                    ELSE [paths |-> <<>>, exc |-> NoneNotIterable]
            ELSE [paths |-> <<>>, exc |-> NoExc]

StartMsg(url) == "Starting download for URL " \o url
SuccessMsg(url) == "Download succeeded for URL " \o url
FailMsg(url, e) == "Download failed for URL " \o url \o ": " \o e

\* a faulty variant of ExceptErrors: the formatted log line is recorded, not str(exc)
ExceptErrorsFormatted(errs, url, e) == Append(errs, FailMsg(url, e))

\* errors.append(str(exc))
ExceptErrors(errs, url, e) == Append(errs, e)

---------------------------------------------------------------------------
(* Bounds and input sets *)

MaxEntries == 2     \* requested_downloads entries in a metadata map
MaxLibCalls == 1    \* adapter calls yt-dlp makes during one download()
MaxLogCalls == 3    \* logger-adapter calls, adapter taken alone
MaxHookCalls == 1   \* progress-hook calls, hook taken alone
MaxExtra == 2       \* keys in extra_yt_dlp_options

SeqsUpTo(S, n) == UNION {[1..k -> S] : k \in 0..n}

\* the dicts that give some of the keys of choices one of its values each
RECURSIVE DictsFrom(_, _, _)
DictsFrom(choices, keys, maxKeys) ==
    IF keys = {} \/ maxKeys = 0 THEN {EmptyDict}
    ELSE LET k == CHOOSE j \in keys : TRUE
         IN DictsFrom(choices, keys \ {k}, maxKeys)
            \cup {SetItem(d, k, x) : d \in DictsFrom(choices, keys \ {k}, maxKeys - 1),
                                     x \in choices[k]}

DictsOver(choices, maxKeys) == DictsFrom(choices, DOMAIN choices, maxKeys)

Url == "https://youtu.be/x"
Callbacks(name) == {PyNone, PyFunc(name)}
CallbackError == "callback failed"
LibErrors == {"network unreachable", "HTTP Error 403: Forbidden"}
LogMethods == {"debug", "info", "warning", "error"}
LogMessages == {"[download] 50%", "ERROR: unavailable"}

ServiceOutputDirs == {"downloads", "out"}

\* keyword arguments of DownloadConfig for a download() call
DownloadKwargs ==
    DictsOver([output_dir |-> {PyStr("vids"), PyStr("")}], 1)

\* entries of requested_downloads: with a filename, with an empty one, without
\* one, and one that is no dict at all
Entries ==
    {PyDict([_filename |-> PyStr("a.mp4")]), PyDict([_filename |-> PyStr("b.mp4")]),
     PyDict([_filename |-> PyStr("")]), PyDict([ext |-> PyStr("mp4")]), PyStr("bad")}

\* what extract_info can return
LibInfos ==
    {PyNone, PyList(<<>>), PyDict(EmptyDict), PyDict([title |-> PyStr("T")]),
     PyDict([_filename |-> PyStr("a.mp4")]), PyDict([_filename |-> PyNone]),
     PyDict([_filename |-> PyStr("a.mp4"),
             requested_downloads |-> PyList(<<PyDict([_filename |-> PyStr("b.mp4")])>>)]),
     PyDict([requested_downloads |-> PyNone])}
    \cup {PyDict([requested_downloads |-> PyList(items)]) : items \in SeqsUpTo(Entries, MaxEntries)}

\* raw progress dictionaries yt-dlp hands to a hook during download()
LibStatuses ==
    {[status |-> PyStr("downloading"), downloaded_bytes |-> PyInt(50), total_bytes |-> PyInt(100)],
     [status |-> PyStr("finished"), filename |-> PyStr("a.mp4")]}

---------------------------------------------------------------------------
(* The download() call, step by step; yt-dlp is the environment *)

\* the values of the call's variables while no call is under way
NoCall ==
    /\ kwargs = EmptyDict
    /\ config = EmptyDict
    /\ on_progress = PyNone
    /\ on_log = PyNone
    /\ output_dir = ""
    /\ ydl_opts = EmptyDict
    /\ info = PyDict(EmptyDict)
    /\ filepaths = <<>>
    /\ errors = <<>>
    /\ exc = NoExc
    /\ lib_raised = FALSE
    /\ result = NoResult
    /\ lib_calls = <<>>
    /\ trace = <<>>

\* YouTubeDownloadService(default_output_dir=d): the directory is created
Init ==
    /\ default_output_dir \in ServiceOutputDirs
    /\ default_proxy = PyNone
    /\ fs = {default_output_dir}
    /\ pc = "idle"
    /\ NoCall

\* download(config, on_progress, on_log) up to the "try": the start is logged,
\* the output directory is made, the options are built
Download(kw, progress_cb, log_cb) ==
    /\ pc = "idle"
    /\ LET cfg == DownloadConfig(Url, kw)
           dir == PyOr(cfg.output_dir, PyStr(default_output_dir)).v
       IN /\ kwargs' = kw
          /\ config' = cfg
          /\ output_dir' = dir
          /\ fs' = fs \cup {dir}
          /\ ydl_opts' = _build_yt_dlp_options(cfg, dir, progress_cb, log_cb, default_proxy)
    /\ on_progress' = progress_cb
    /\ on_log' = log_cb
    /\ trace' = Append(trace, LoggerRecord("info", StartMsg(Url)))
    /\ filepaths' = <<>>
    /\ info' = PyDict(EmptyDict)
    /\ errors' = <<>>
    /\ pc' = "construct"
    /\ UNCHANGED <<default_output_dir, default_proxy, exc, lib_raised, result, lib_calls>>

\* yt_dlp.YoutubeDL(ydl_opts).__enter__(): it returns or raises
LibConstruct ==
    /\ pc = "construct"
    /\ \/ /\ pc' = "extract"
          /\ UNCHANGED <<exc, lib_raised>>
       \/ \E e \in LibErrors :
             /\ exc' = e
             /\ lib_raised' = TRUE
             /\ pc' = "except"
    /\ UNCHANGED <<default_output_dir, default_proxy, fs, kwargs, config, on_progress,
                   on_log, output_dir, ydl_opts, info, filepaths, errors, result,
                   lib_calls, trace>>

\* inside extract_info yt-dlp calls a method of the logger it was given; the
\* callback, when one is registered, returns or raises, and a raise unwinds
\* through yt-dlp into download()
LibLog(method, msg) ==
    /\ pc = "extract"
    /\ Len(lib_calls) < MaxLibCalls
    /\ ydl_opts.logger.t = "_YtDlpLogger"
    /\ lib_calls' = Append(lib_calls, [method |-> method, msg |-> msg])
    /\ trace' = LoggerMethod(method, trace, ydl_opts.logger.v, msg)
    /\ \/ UNCHANGED <<pc, exc, lib_raised>>
       \/ /\ ydl_opts.logger.v # PyNone
          /\ exc' = CallbackError
          /\ lib_raised' = TRUE
          /\ pc' = "except"
    /\ UNCHANGED <<default_output_dir, default_proxy, fs, kwargs, config, on_progress,
                   on_log, output_dir, ydl_opts, info, filepaths, errors, result>>

\* inside extract_info yt-dlp calls the progress hook it was given
LibProgress(status) ==
    /\ pc = "extract"
    /\ Len(lib_calls) < MaxLibCalls
    /\ ydl_opts.progress_hooks.v # <<>>
    /\ lib_calls' = Append(lib_calls, [method |-> "hook", status |-> status])
    /\ trace' = _hook(trace, ydl_opts.progress_hooks.v[1].v, status)
    /\ \/ UNCHANGED <<pc, exc, lib_raised>>
       \/ /\ exc' = CallbackError
          /\ lib_raised' = TRUE
          /\ pc' = "except"
    /\ UNCHANGED <<default_output_dir, default_proxy, fs, kwargs, config, on_progress,
                   on_log, output_dir, ydl_opts, info, filepaths, errors, result>>

\* extract_info raises
LibRaise(e) ==
    /\ pc = "extract"
    /\ exc' = e
    /\ lib_raised' = TRUE
    /\ pc' = "except"
    /\ UNCHANGED <<default_output_dir, default_proxy, fs, kwargs, config, on_progress,
                   on_log, output_dir, ydl_opts, info, filepaths, errors, result,
                   lib_calls, trace>>

\* info = ydl.extract_info(...) returns inf, and the rest of the with block
\* collects the file paths, which itself raises on some shapes of inf
LibReturn(inf) ==
    /\ pc = "extract"
    /\ info' = inf
    /\ LET r == Collect(inf)
       IN /\ filepaths' = filepaths \o r.paths
          /\ exc' = r.exc
          /\ pc' = IF r.exc = NoExc THEN "exit" ELSE "except"
    /\ UNCHANGED <<default_output_dir, default_proxy, fs, kwargs, config, on_progress,
                   on_log, output_dir, ydl_opts, errors, lib_raised, result,
                   lib_calls, trace>>

\* YoutubeDL.__exit__ at the end of the with block: it returns, and download()
\* logs the success and returns its result, or it raises
LibExit ==
    /\ pc = "exit"
    /\ \/ /\ trace' = Append(trace, LoggerRecord("info", SuccessMsg(Url)))
          /\ result' = DownloadResult(TRUE, filepaths, info, <<>>)
          /\ pc' = "returned"
          /\ UNCHANGED <<exc, lib_raised>>
       \/ \E e \in LibErrors :
             /\ exc' = e
             /\ lib_raised' = TRUE
             /\ pc' = "except"
             /\ UNCHANGED <<trace, result>>
    /\ UNCHANGED <<default_output_dir, default_proxy, fs, kwargs, config, on_progress,
                   on_log, output_dir, ydl_opts, info, filepaths, errors, lib_calls>>

\* except Exception as exc: the failure is logged, recorded and handed to
\* on_log, which returns (and the failed result is returned) or raises (and
\* that exception leaves download())
Except ==
    /\ pc = "except"
    /\ LET msg == FailMsg(Url, exc)
           errs == ExceptErrors(errors, Url, exc)
           logged == Append(trace, LoggerRecord("error", msg))
       IN /\ trace' = IF on_log # PyNone
                      THEN Append(logged, LogDelivery(LogEvent("error", msg)))
                      ELSE logged
          /\ errors' = errs
          /\ \/ /\ result' = DownloadResult(FALSE, filepaths, info, errs)
                /\ pc' = "returned"
             \/ /\ on_log # PyNone
                /\ pc' = "raised"
                /\ UNCHANGED result
    /\ UNCHANGED <<default_output_dir, default_proxy, fs, kwargs, config, on_progress,
                   on_log, output_dir, ydl_opts, info, filepaths, exc, lib_raised,
                   lib_calls>>

Next ==
    \/ \E kw \in DownloadKwargs, p \in Callbacks("on_progress"), l \in Callbacks("on_log") :
          Download(kw, p, l)
    \/ LibConstruct
    \/ \E m \in LogMethods, msg \in LogMessages : LibLog(m, msg)
    \/ \E st \in LibStatuses : LibProgress(st)
    \/ \E e \in LibErrors : LibRaise(e)
    \/ \E inf \in LibInfos : LibReturn(inf)
    \/ LibExit
    \/ Except

Spec == Init /\ [][Next]_vars

---------------------------------------------------------------------------
(* _build_yt_dlp_options taken alone, over a wide range of configurations *)

\* one overriding value for each derived key, and a key the mapping never sets
ExtraChoices ==
    [format |-> {PyStr("worst")},
     outtmpl |-> {PyStr("x.%(ext)s")},
     noplaylist |-> {PyBool(TRUE)},
     retries |-> {PyInt(10)},
     proxy |-> {PyStr("socks5://e")},
     socket_timeout |-> {PyInt(5)},
     playlist_items |-> {PyStr("2")},
     postprocessors |-> {PyList(<<>>)},
     progress_hooks |-> {PyList(<<>>)},
     logger |-> {PyNone},
     quiet |-> {PyBool(TRUE)}]

ExtraOptions == {PyDict(d) : d \in DictsOver(ExtraChoices, MaxExtra)}

BuildKwargs ==
    DictsOver([format |-> {PyStr("mp4")},
               audio_only |-> {PyBool(TRUE)},
               playlist_items |-> {PyStr(""), PyStr("1-3")},
               timeout |-> {PyInt(30)},
               proxy |-> {PyStr("http://c")},
               extra_yt_dlp_options |-> ExtraOptions], 6)

InitBuild ==
    /\ default_output_dir \in ServiceOutputDirs
    /\ default_proxy \in {PyNone, PyStr("http://d")}
    /\ fs = {default_output_dir}
    /\ pc = "build"
    /\ NoCall

\* self._build_yt_dlp_options(config, output_dir, on_progress, on_log)
BuildOptions(kw, dir, progress_cb, log_cb) ==
    /\ pc = "build"
    /\ kwargs' = kw
    /\ config' = DownloadConfig(Url, kw)
    /\ output_dir' = dir
    /\ on_progress' = progress_cb
    /\ on_log' = log_cb
    /\ ydl_opts' = _build_yt_dlp_options(DownloadConfig(Url, kw), dir, progress_cb, log_cb,
                                        default_proxy)
    /\ pc' = "built"
    /\ UNCHANGED <<default_output_dir, default_proxy, fs, info, filepaths, errors, exc,
                   lib_raised, result, lib_calls, trace>>

NextBuild ==
    /\ pc = "build"
    /\ \E kw \in BuildKwargs, p \in Callbacks("on_progress"), l \in Callbacks("on_log") :
          BuildOptions(kw, default_output_dir, p, l)

SpecBuild == InitBuild /\ [][NextBuild]_vars

---------------------------------------------------------------------------
(* The logger adapter taken alone: yt-dlp calls its four methods *)

\* _YtDlpLogger(logger, on_log)
InitLog ==
    /\ default_output_dir = "downloads"
    /\ default_proxy = PyNone
    /\ fs = {default_output_dir}
    /\ pc = "logger"
    /\ on_log \in Callbacks("on_log")
    /\ kwargs = EmptyDict /\ config = EmptyDict /\ on_progress = PyNone
    /\ output_dir = "" /\ ydl_opts = EmptyDict /\ info = PyDict(EmptyDict)
    /\ filepaths = <<>> /\ errors = <<>> /\ exc = NoExc /\ lib_raised = FALSE
    /\ result = NoResult /\ lib_calls = <<>> /\ trace = <<>>

\* one call of a method of the adapter: the record is written, the event is
\* delivered, and the call returns, or raises what the callback raised
AdapterCall(method, msg) ==
    /\ pc = "logger"
    /\ Len(lib_calls) < MaxLogCalls
    /\ lib_calls' = Append(lib_calls, [method |-> method, msg |-> msg])
    /\ trace' = LoggerMethod(method, trace, on_log, msg)
    /\ \/ exc' = NoExc
       \/ on_log # PyNone /\ exc' = CallbackError
    /\ UNCHANGED <<default_output_dir, default_proxy, fs, pc, kwargs, config, on_progress,
                   on_log, output_dir, ydl_opts, info, filepaths, errors, lib_raised,
                   result>>

Debug(msg) == AdapterCall("debug", msg)
Info(msg) == AdapterCall("info", msg)
Warning(msg) == AdapterCall("warning", msg)
Error(msg) == AdapterCall("error", msg)

NextLog ==
    \/ \E msg \in LogMessages : Debug(msg)
    \/ \E msg \in LogMessages : Info(msg)
    \/ \E msg \in LogMessages : Warning(msg)
    \/ \E msg \in LogMessages : Error(msg)

SpecLog == InitLog /\ [][NextLog]_vars

---------------------------------------------------------------------------
(* The progress hook taken alone, over a wide range of raw dictionaries *)

RawStatuses ==
    DictsOver([status |-> {PyStr("downloading"), PyStr("finished"), PyStr("processing")},
               downloaded_bytes |-> {PyInt(0), PyInt(50)},
               total_bytes |-> {PyInt(0), PyInt(100)},
               total_bytes_estimate |-> {PyInt(500)},
               filename |-> {PyStr("a.mp4")},
               info_dict |-> {PyDict([filename |-> PyStr("n.mp4")])}], 6)

\* self._make_progress_hook(on_progress)
InitHook ==
    /\ default_output_dir = "downloads"
    /\ default_proxy = PyNone
    /\ fs = {default_output_dir}
    /\ pc = "hook"
    /\ on_progress \in Callbacks("on_progress")
    /\ kwargs = EmptyDict /\ config = EmptyDict /\ on_log = PyNone
    /\ output_dir = "" /\ ydl_opts = EmptyDict /\ info = PyDict(EmptyDict)
    /\ filepaths = <<>> /\ errors = <<>> /\ exc = NoExc /\ lib_raised = FALSE
    /\ result = NoResult /\ lib_calls = <<>> /\ trace = <<>>

\* one call of the hook: the event is delivered, and the call returns, or
\* raises what the callback raised
Hook(status) ==
    /\ pc = "hook"
    /\ Len(lib_calls) < MaxHookCalls
    /\ lib_calls' = Append(lib_calls, [method |-> "hook", status |-> status])
    /\ trace' = _hook(trace, on_progress, status)
    /\ \/ exc' = NoExc
       \/ on_progress # PyNone /\ exc' = CallbackError
    /\ UNCHANGED <<default_output_dir, default_proxy, fs, pc, kwargs, config, on_progress,
                   on_log, output_dir, ydl_opts, info, filepaths, errors, lib_raised,
                   result>>

NextHook == \E st \in RawStatuses : Hook(st)

SpecHook == InitHook /\ [][NextHook]_vars

---------------------------------------------------------------------------
(* Properties of download(), under Spec *)

IsPrefix(a, b) == Len(a) <= Len(b) /\ a = SubSeq(b, 1, Len(a))

HasFilename(entry) ==
    entry.t = "dict" /\ "_filename" \in DOMAIN entry.v /\ Truthy(entry.v["_filename"])

\* the paths a metadata value stands for: its own _filename, else the
\* non-empty _filename of each requested_downloads entry, in order
ExpectedPaths(inf) ==
    IF inf.t # "dict" THEN <<>>
    ELSE IF "_filename" \in DOMAIN inf.v THEN <<inf.v["_filename"]>>
    ELSE IF "requested_downloads" \in DOMAIN inf.v /\ inf.v["requested_downloads"].t = "list"
    THEN LET named == SelectSeq(inf.v["requested_downloads"].v, HasFilename)
         IN [i \in 1..Len(named) |-> named[i].v["_filename"]]
    ELSE <<>>

Failed == pc = "returned" /\ ~result.success
Succeeded == pc = "returned" /\ result.success

\* C1, as stated: every failed result has exactly one error, the message of
\* the exception that aborted the download, and an empty filepaths list.
C1_FailedResultHasNoPaths ==
    Failed => result.errors = <<exc>> /\ result.filepaths = <<>>

\* C1, amended: every failed result has exactly one error, the message of the
\* exception that aborted the download, and its filepaths are the paths
\* collected before that exception: a prefix, in order, of the paths its
\* metadata stands for, hence empty when extract_info never returned.
C1_FailedResult ==
    Failed =>
        /\ result.errors = <<exc>>
        /\ IsPrefix(result.filepaths, ExpectedPaths(result.info))
        /\ (result.info = PyDict(EmptyDict) => result.filepaths = <<>>)

\* a failed result that reports a path: the with block was left by an
\* exception after a.mp4 had been collected
C1_Witness ==
    /\ Failed
    /\ result.errors = <<"network unreachable">>
    /\ result.filepaths = <<PyStr("a.mp4")>>

\* C2: download() always ends by returning a DownloadResult; no exception
\* ever leaves it, whatever yt-dlp and the callbacks do.
C2_NeverPropagates == pc # "raised"

\* C3: the result is a success if and only if no call into yt-dlp raised
\* (whatever metadata it returned), and its errors are empty exactly when it
\* is a success.
C3_SuccessIffLibraryCompleted ==
    pc = "returned" =>
        /\ result.success <=> ~lib_raised
        /\ result.errors = <<>> <=> result.success

\* C5: a download() whose config was built without output_dir uses the
\* service's default output directory for the output template, and that
\* directory exists from before yt-dlp is invoked until after the call.
C5_DefaultOutputDir ==
    (pc \notin {"idle"} /\ "output_dir" \notin DOMAIN kwargs) =>
        /\ output_dir = default_output_dir
        /\ ydl_opts.outtmpl = PyStr(PathJoin(default_output_dir, config.filename_template.v))
        /\ default_output_dir \in fs

\* C7: a successful result's filepaths are the metadata's own _filename if it
\* has one, else the _filename of each requested_downloads entry that has one
\* (a non-empty one), in the order of the entries; and metadata with neither
\* field gives a success with no paths.
C7_FilepathsInOrder ==
    /\ Succeeded => result.filepaths = ExpectedPaths(result.info)
    /\ (/\ pc = "returned"
        /\ ~lib_raised
        /\ result.info.t = "dict"
        /\ DOMAIN result.info.v \cap {"_filename", "requested_downloads"} = {})
       => result.success /\ result.filepaths = <<>>

\* two entries, both collected, in their order
C7_Witness ==
    /\ Succeeded
    /\ result.info = PyDict([requested_downloads |->
            PyList(<<PyDict([_filename |-> PyStr("a.mp4")]),
                     PyDict([_filename |-> PyStr("b.mp4")])>>)])
    /\ result.filepaths = <<PyStr("a.mp4"), PyStr("b.mp4")>>

---------------------------------------------------------------------------
(* Properties of _build_yt_dlp_options, under SpecBuild *)

Built == pc = "built"
Extra == config.extra_yt_dlp_options.v

IsAudioExtraction(pp) ==
    pp.key = "FFmpegExtractAudio" /\ pp.preferredcodec = "mp3" /\ pp.preferredquality = "192"

\* C4: with audio_only set and no format given, neither as the config's
\* format nor in the extra options, the option map's format is
\* "bestaudio/best" and it has exactly one audio-extraction post-processor
\* (mp3, 192).
C4_AudioOnlyFormat ==
    (/\ Built
     /\ Truthy(config.audio_only)
     /\ "format" \notin DOMAIN kwargs
     /\ "format" \notin DOMAIN Extra)
    => /\ ydl_opts.format = PyStr("bestaudio/best")
       /\ "postprocessors" \in DOMAIN ydl_opts
       /\ Len(SelectSeq(ydl_opts.postprocessors.v, IsAudioExtraction)) = 1

\* C6: every key of extra_yt_dlp_options has the extra value in the final
\* map, also where it collides with a derived key; every derived key that is
\* not among the extra options keeps its derived value; the map has no other
\* keys.
C6_ExtraMergedLast ==
    Built =>
        LET derived == DerivedOptions(config, output_dir, on_progress, on_log, default_proxy)
        IN /\ DOMAIN ydl_opts = DOMAIN derived \cup DOMAIN Extra
           /\ \A k \in DOMAIN Extra : ydl_opts[k] = Extra[k]
           /\ \A k \in DOMAIN derived \ DOMAIN Extra : ydl_opts[k] = derived[k]

\* an extra format overrides the derived one of an audio-only config, next to
\* an extra key that collides with nothing, while retries keeps its value
C6_Witness ==
    /\ Built
    /\ Truthy(config.audio_only)
    /\ DOMAIN Extra = {"format", "quiet"}
    /\ ydl_opts.format = PyStr("worst")
    /\ ydl_opts.quiet = PyBool(TRUE)
    /\ ydl_opts.retries = PyInt(3)

PlaylistRule ==
    IF config.playlist_items # PyNone
    THEN /\ ydl_opts.noplaylist = PyBool(FALSE)
         /\ "playlist_items" \in DOMAIN ydl_opts
         /\ ydl_opts.playlist_items = config.playlist_items
    ELSE /\ ydl_opts.noplaylist = PyBool(TRUE)
         /\ "playlist_items" \notin DOMAIN ydl_opts

\* C8, as stated: for any config the option map has noplaylist false and
\* playlist_items verbatim when playlist_items is set, and noplaylist true and
\* no playlist_items key when it is absent.
C8_PlaylistRuleForAnyConfig == Built => PlaylistRule

\* C8, amended: the same, for any config whose extra_yt_dlp_options hold
\* neither noplaylist nor playlist_items.
C8_PlaylistRule ==
    (Built /\ DOMAIN Extra \cap {"noplaylist", "playlist_items"} = {}) => PlaylistRule

\* a playlist selection passed through next to an unrelated extra option
C8_Witness ==
    /\ Built
    /\ config.playlist_items = PyStr("1-3")
    /\ DOMAIN Extra = {"retries"}
    /\ ydl_opts.noplaylist = PyBool(FALSE)
    /\ ydl_opts.playlist_items = PyStr("1-3")

---------------------------------------------------------------------------
(* Properties of the progress hook, under SpecHook *)

\* C9: every event delivered carries the raw downloaded_bytes unmodified, and
\* as total_bytes the raw total_bytes whenever the raw dictionary has one
\* (0 included), the raw total_bytes_estimate only when it has none.
C9_ByteCounters ==
    (pc = "hook" /\ on_progress # PyNone) =>
        /\ Len(trace) = Len(lib_calls)
        /\ \A i \in 1..Len(trace) :
              LET ev == trace[i].event
                  raw == lib_calls[i].status
              IN /\ ev.downloaded_bytes = Get(raw, "downloaded_bytes")
                 /\ ev.total_bytes = IF "total_bytes" \in DOMAIN raw
                                     THEN raw.total_bytes
                                     ELSE Get(raw, "total_bytes_estimate")

---------------------------------------------------------------------------
(* Properties of the logger adapter, under SpecLog *)

\* what a sequence of adapter calls must leave behind: per call, in order,
\* the record at the call's level and then, when a callback is registered,
\* one event of that level and message with no context
RECURSIVE ExpectedLogTrace(_, _)
ExpectedLogTrace(calls, cb) ==
    IF calls = <<>> THEN <<>>
    ELSE <<[kind |-> "logger", level |-> Head(calls).method, message |-> Head(calls).msg]>>
         \o (IF cb # PyNone
             THEN <<[kind |-> "on_log",
                     event |-> [level |-> Head(calls).method, message |-> Head(calls).msg,
                                context |-> PyNone]]>>
             ELSE <<>>)
         \o ExpectedLogTrace(Tail(calls), cb)

\* C10: whatever sequence of debug/info/warning/error calls yt-dlp makes, each
\* call writes its record to the process logger and then hands the callback,
\* if one is registered, exactly one event of the same level and message and
\* no context, before the next call: one event per call, in call order, none
\* dropped or filtered, and none at all without a callback.
C10_LogPassThrough ==
    pc = "logger" => trace = ExpectedLogTrace(lib_calls, on_log)

\* three calls at three levels, debug among them, delivered to the callback
C10_Witness ==
    /\ pc = "logger"
    /\ on_log # PyNone
    /\ Len(lib_calls) = 3
    /\ lib_calls[1].method = "debug"
    /\ lib_calls[2].method = "error"
    /\ lib_calls[3].method = "info"
    /\ Len(trace) = 6
    /\ trace[2].event.level = "debug"
    /\ trace[6].event.level = "info"

====
